---------------------------- MODULE Spec2Model ----------------------------
(***************************************************************************)
(* First-order uncertainty propagation and variance decomposition of the   *)
(* Storms and Rogozkin fission-gas-release correlations                    *)
(* (scripts/sensitivity_analysis.py, scripts/figure14_fgr_comparison.py).  *)
(*                                                                         *)
(* The scripts compute in IEEE-754 binary64.  The model computes in a      *)
(* decimal floating-point format with the same exponent range, the same    *)
(* special values (inf, nan) and the same division-by-zero behaviour, and  *)
(* with 8 significant digits instead of 53 bits: a value is m * 10^e with  *)
(* 10^7 <= |m| < 10^8, every operation rounds its result to that format.   *)
(* Signed zeros and the reduced precision of subnormals are not modelled.  *)
(***************************************************************************)
EXTENDS Integers, Sequences, FiniteSets, TLC

-----------------------------------------------------------------------------
(* Floating-point values.  k: "fin" (m * 10^e), "inf" (sign m), "nan",     *)
(* "cplx" (a Python complex, value not tracked), "err" (a raised           *)
(* exception named x, which every later operation passes on).              *)

Val(k, m, e, x) == [k |-> k, m |-> m, e |-> e, x |-> x]
Fin(m, e) == Val("fin", m, e, "")
Zero == Fin(0, 0)
Inf(s) == Val("inf", s, 0, "")
NaN == Val("nan", 0, 0, "")
Cplx == Val("cplx", 0, 0, "")
Err(x) == Val("err", 0, 0, x)
Unbound == Val("unbound", 0, 0, "")

Abs(n) == IF n < 0 THEN -n ELSE n
Sgn(n) == IF n < 0 THEN -1 ELSE IF n > 0 THEN 1 ELSE 0

\* 10^n for n in 0..9
Pow10(n) ==
    <<1, 10, 100, 1000, 10000, 100000, 1000000, 10000000, 100000000,
      1000000000>>[n + 1]

\* The format: mantissas of 8 digits; the largest finite binary64 is
\* 1.7976931e308, the smallest positive one 4.94e-324 (half of it rounds to 0).
Range(m, e) ==
    IF e > 301 \/ (e = 301 /\ Abs(m) >= 17976932) THEN Inf(Sgn(m))
    ELSE IF e < -331 \/ (e = -331 /\ Abs(m) < 24703283) THEN Zero
    ELSE Fin(m, e)

\* Rounds m * 10^e (|m| < 2^31) to 8 digits, half away from zero.
NormV(m, e) ==
    LET a == Abs(m)
        q == IF a >= 1000000000 THEN (a + 50) \div 100
             ELSE IF a >= 100000000 THEN (a + 5) \div 10
             ELSE a
        up == IF a >= 1000000000 THEN 2 ELSE IF a >= 100000000 THEN 1 ELSE 0
        dn == IF a >= 10000000 THEN 0 ELSE IF a >= 1000000 THEN 1
              ELSE IF a >= 100000 THEN 2 ELSE IF a >= 10000 THEN 3
              ELSE IF a >= 1000 THEN 4 ELSE IF a >= 100 THEN 5
              ELSE IF a >= 10 THEN 6 ELSE 7
    IN IF m = 0 THEN Zero
       ELSE IF q >= 100000000 THEN Range(Sgn(m) * 10000000, e + up + 1)
       ELSE IF up > 0 THEN Range(Sgn(m) * q, e + up)
       ELSE Range(m * Pow10(dn), e - dn)
Norm(m, e) == CHOOSE r \in {NormV(a, b) : a \in {m}, b \in {e}} : TRUE

\* A decimal literal of the source: Dec(25, -4) is 0.0025.
Dec(m, e) == Norm(m, e)

IsErr(a) == a.k = "err"
IsFin(a) == a.k = "fin"
IsZero(a) == a.k = "fin" /\ a.m = 0
\* First operand that is an exception, a complex or a nan decides the result.
Special2(a, b) ==
    IF IsErr(a) THEN a ELSE IF IsErr(b) THEN b
    ELSE IF a.k = "unbound" \/ b.k = "unbound" THEN Err("NameError")
    ELSE IF a.k = "cplx" \/ b.k = "cplx" THEN Cplx
    ELSE NaN
Plain(a) == a.k \in {"fin", "inf"}

\* TLC passes operator arguments unevaluated; each operation XV on values has
\* a form X that computes the value of each argument once
\* (CHOOSE r \in {XV(a) : a \in {x}} : TRUE equals XV(x)).

NegV(a) == IF Plain(a) THEN [a EXCEPT !.m = -a.m] ELSE a
Neg(x) == CHOOSE r \in {NegV(a) : a \in {x}} : TRUE

AddFin(a, b) ==
    IF a.m = 0 THEN b
    ELSE IF b.m = 0 THEN a
    ELSE LET hi == IF a.e >= b.e THEN a ELSE b
             lo == IF a.e >= b.e THEN b ELSE a
             d == hi.e - lo.e
         IN IF d > 8 THEN hi
            ELSE Norm(hi.m * 10 + Sgn(lo.m) * ((Abs(lo.m) * 10) \div Pow10(d)),
                      hi.e - 1)

AddV(a, b) ==
    IF ~(Plain(a) /\ Plain(b)) THEN Special2(a, b)
    ELSE IF a.k = "inf" THEN (IF b.k = "inf" /\ b.m # a.m THEN NaN ELSE a)
    ELSE IF b.k = "inf" THEN b
    ELSE AddFin(a, b)
Add(x, y) == CHOOSE r \in {AddV(a, b) : a \in {x}, b \in {y}} : TRUE

Sub(x, y) == Add(x, Neg(y))

MulFin(a, b) ==
    IF a.m = 0 \/ b.m = 0 THEN Zero
    ELSE LET ah == Abs(a.m) \div 10000
             al == Abs(a.m) % 10000
             bh == Abs(b.m) \div 10000
             bl == Abs(b.m) % 10000
             p == ah * bh * 10
                  + ((ah * bl + al * bh) * 10 + ((al * bl) \div 1000)) \div 10000
         IN Norm(Sgn(a.m) * Sgn(b.m) * p, a.e + b.e + 7)

MulV(a, b) ==
    IF ~(Plain(a) /\ Plain(b)) THEN Special2(a, b)
    ELSE IF a.k = "inf" \/ b.k = "inf"
         THEN (IF IsZero(a) \/ IsZero(b) THEN NaN ELSE Inf(Sgn(a.m) * Sgn(b.m)))
    ELSE MulFin(a, b)
Mul(x, y) == CHOOSE r \in {MulV(a, b) : a \in {x}, b \in {y}} : TRUE

\* x ** 2
SquareV(a) == MulV(a, a)
Square(x) == CHOOSE r \in {SquareV(a) : a \in {x}} : TRUE

\* Four steps of long division of r * 10^4 by mb (r < mb < 10^8): the four
\* quotient digits as one number, and the remainder.
Div4(r, mb) ==
    LET r1 == (r * 10) % mb
        r2 == (r1 * 10) % mb
        r3 == (r2 * 10) % mb
    IN <<((r * 10) \div mb) * 1000 + ((r1 * 10) \div mb) * 100
           + ((r2 * 10) \div mb) * 10 + ((r3 * 10) \div mb),
         (r3 * 10) % mb>>

\* The quotient of ma * 10^8 by mb.
LongDiv(ma, mb) ==
    CHOOSE q \in {(ma \div mb) * 100000000 + A[1] * 10000 + Div4(A[2], mb)[1] :
                    A \in {Div4(ma % mb, mb)}} : TRUE

DivFin(a, b) ==
    IF a.m = 0 THEN Zero
    ELSE Norm(Sgn(a.m) * Sgn(b.m) * LongDiv(Abs(a.m), Abs(b.m)), a.e - b.e - 8)

\* numpy's float64 division: x/0 is inf (nan for 0/0) with a warning only.
DivV(a, b) ==
    IF ~(Plain(a) /\ Plain(b)) THEN Special2(a, b)
    ELSE IF a.k = "inf" THEN (IF b.k = "inf" THEN NaN
                              ELSE Inf(a.m * (IF b.m < 0 THEN -1 ELSE 1)))
    ELSE IF b.k = "inf" THEN Zero
    ELSE IF b.m = 0 THEN (IF a.m = 0 THEN NaN ELSE Inf(Sgn(a.m)))
    ELSE DivFin(a, b)
Div(x, y) == CHOOSE r \in {DivV(a, b) : a \in {x}, b \in {y}} : TRUE

\* a > b and a < b on floats: false when either is nan.
GtV(a, b) == Plain(a) /\ Plain(b) /\ (LET d == Sub(a, b) IN Plain(d) /\ d.m > 0)
Gt(x, y) == CHOOSE r \in {GtV(a, b) : a \in {x}, b \in {y}} : TRUE
Lt(x, y) == Gt(y, x)


-----------------------------------------------------------------------------
(* Library functions: np.sqrt, np.exp, and the float power operator.       *)

\* The floor of the square root of n, for 1000 <= n < 100000.
ISqrt(n) == CHOOSE r \in 31..316 : r * r <= n /\ n < (r + 1) * (r + 1)

RECURSIVE Newton(_, _, _)
Newton(v, s, n) ==
    IF n = 0 THEN s
    ELSE CHOOSE r \in {Newton(v, t, n - 1) :
                         t \in {Mul(Dec(5, -1), Add(s, Div(v, s)))}} : TRUE

\* np.sqrt: nan for a negative argument (a warning only).
\* A square root that returns its argument.
SqrtLeftOut(a) == a

SqrtV(a) ==
    IF ~Plain(a) THEN Special2(a, a)
    ELSE IF a.m < 0 THEN NaN
    ELSE IF a.k = "inf" \/ a.m = 0 THEN a
    ELSE LET odd == a.e % 2 # 0
             m2 == IF odd THEN a.m * 10 ELSE a.m
             e2 == IF odd THEN a.e - 1 ELSE a.e
         IN Newton(a, Norm(ISqrt(m2 \div 10000), (e2 \div 2) + 2), 3)
Sqrt(x) == CHOOSE r \in {SqrtV(a) : a \in {x}} : TRUE

\* x as an integer number of millionths (|x| < 2000).
ToMicro(x) ==
    LET s == x.e + 6
    IN IF s >= 0 THEN x.m * Pow10(s)
       ELSE IF s < -8 THEN 0
       ELSE Sgn(x.m) * (Abs(x.m) \div Pow10(-s))

\* 10^(j/8) for j = 0..7, as 8-digit mantissas; ln(10)/8 = 0.2878231366.
Tab8 ==
    <<10000000, 13335214, 17782794, 23713737,
      31622777, 42169650, 56234133, 74989421>>

\* The Taylor polynomial of exp of degree 7 at r, given r2 = r^2.
ExpPoly(r, r2) ==
    Add(Add(Add(Dec(1, 0), r),
            Mul(r2, Add(Dec(5, -1), Mul(Dec(16666667, -8), r)))),
        Mul(Mul(r2, r2),
            Add(Add(Dec(41666667, -9), Mul(Dec(83333333, -10), r)),
                Mul(r2, Add(Dec(13888889, -10), Mul(Dec(1984127, -10), r))))))

\* exp(x) = 10^k * 10^(j/8) * exp(r) with x = (8k + j) * ln(10)/8 + r and
\* 0 <= r < ln(10)/8 = 0.2878 + 0.000023136637.
ExpFin(x) ==
    LET n8 == ToMicro(x) \div 287823
        N == Dec(n8, 0)
    IN CHOOSE v \in {Norm(E.m, E.e + (n8 \div 8)) :
                      E \in {CHOOSE p \in {Mul(Fin(Tab8[(n8 % 8) + 1], -7),
                                               ExpPoly(r, Mul(r, r))) :
                                           r \in {Sub(Sub(x, Mul(N, Dec(2878, -4))),
                                                      Mul(N, Dec(23136637, -12)))}} :
                                 TRUE}} : TRUE

\* np.exp: overflows to inf above 709.78271, underflows to 0 below -745.13321.
ExpV(x) ==
    IF x.k = "inf" THEN (IF x.m > 0 THEN x ELSE Zero)
    ELSE IF ~Plain(x) THEN Special2(x, x)
    ELSE IF Gt(x, Dec(70978271, -5)) THEN Inf(1)
    ELSE IF Lt(x, Dec(-74513321, -5)) THEN Zero
    ELSE ExpFin(x)
Exp(x) == CHOOSE r \in {ExpV(a) : a \in {x}} : TRUE

\* y + y^3/3 + y^5/5 + ... + y^11/11, given y2 = y^2 and y4 = y^4.
AtanhPoly(y, y2, y4) ==
    Mul(y, Add(Add(Dec(1, 0), Mul(y2, Dec(33333333, -8))),
               Mul(y4, Add(Add(Dec(2, -1), Mul(y2, Dec(14285714, -8))),
                           Mul(y4, Add(Dec(11111111, -8),
                                       Mul(y2, Dec(90909091, -9))))))))

\* ln of a finite v > 0: v = u * 10^(j/8) * 10^n with 1 <= u < 10^(1/8), and
\* ln(u) = 2 atanh((u - 1)/(u + 1)).
LnU(u, n8) ==
    CHOOSE r \in {Add(Mul(Dec(2, 0),
                          CHOOSE t \in {AtanhPoly(y, y2, Mul(y2, y2)) :
                                        y2 \in {Mul(y, y)}} : TRUE),
                      Mul(Dec(n8, 0), Dec(28782314, -8))) :
                  y \in {Div(Sub(u, Dec(1, 0)), Add(u, Dec(1, 0)))}} : TRUE
Ln(v) ==
    LET j == Cardinality({i \in 2..8 : Tab8[i] <= v.m})
    IN LnU(Div(Fin(v.m, -7), Fin(Tab8[j + 1], -7)), 8 * (v.e + 7) + j)

\* b ** p for a positive non-integer literal p.  sc is the kind of scalar
\* that holds b: "py" (a Python float) or "np" (a numpy float64).  A
\* negative base gives a complex in Python and nan in numpy; an overflowing
\* Python power raises OverflowError.
PowV(sc, b, p) ==
    IF ~Plain(b) THEN Special2(b, b)
    ELSE IF b.k = "inf" THEN (IF b.m > 0 \/ sc = "np" THEN Inf(1) ELSE Cplx)
    ELSE IF b.m = 0 THEN Zero
    ELSE IF b.m < 0 THEN (IF sc = "py" THEN Cplx ELSE NaN)
    ELSE CHOOSE v \in {IF r.k = "inf" /\ sc = "py" THEN Err("OverflowError") ELSE r :
                         r \in {CHOOSE x \in {Exp(Mul(p, l)) : l \in {Ln(b)}} : TRUE}} :
                TRUE
Pow(sc, x, p) == CHOOSE r \in {PowV(sc, b, p) : b \in {x}} : TRUE

\* a / b on the scalars the caller passed in: Python floats raise
\* ZeroDivisionError, numpy float64 follows Div.
PyDivV(sc, a, b) ==
    IF sc = "py" /\ Plain(a) /\ IsZero(b) THEN Err("ZeroDivisionError")
    ELSE Div(a, b)
PyDiv(sc, x, y) == CHOOSE r \in {PyDivV(sc, a, b) : a \in {x}, b \in {y}} : TRUE


-----------------------------------------------------------------------------
(* sensitivity_analysis.py: data, correlations, parameters, the loop.      *)

VARIABLES
    scalar,     \* kind of the scalars a row hands out: "py" or "np"
    df,         \* the specimen table, a sequence of rows
    pos,        \* rows the iterator of the for loop has handed out
    pc,         \* "for", "storms", "rogozkin", "append", "done", "raised"
    env,        \* the module's global names bound inside the loop
    exc,        \* the uncaught exception that ended the script, or ""
    results,    \* the list results
    res_df,     \* the frame built from results after the loop
    call,       \* a direct call of one function: its name and arguments
    ret         \* what that call returned or raised

vars == <<scalar, df, pos, pc, env, exc, results, res_df, call, ret>>

\* The columns of the dict data; BU_FIMA in thousandths, TD_pct in hundredths.
data ==
    [Sample_ID |-> <<
        "RRN01-6", "RRN01-5", "RRN01-4", "RRN01-3", "RRN01-2", "RRN01-1",
        "RRN02-6", "RRN02-5", "RRN02-4", "RRN02-3", "RRN02-2", "RRN02-1",
        "RRN03-6", "RRN03-5", "RRN03-4", "RRN03-3", "RRN03-2", "RRN03-1",
        "RRN04-6", "RRN04-5", "RRN04-4", "RRN04-3", "RRN04-2", "RRN04-1",
        "RRN05-6", "RRN05-5", "RRN05-4", "RRN05-3", "RRN05-2", "RRN05-1",
        "RRN06-6", "RRN06-5", "RRN06-4", "RRN06-3", "RRN06-2", "RRN06-1" >>,
     Target |-> <<
        1, 1, 1, 1, 1, 1,
        2, 2, 2, 2, 2, 2,
        3, 3, 3, 3, 3, 3,
        4, 4, 4, 4, 4, 4,
        5, 5, 5, 5, 5, 5,
        6, 6, 6, 6, 6, 6 >>,
     T_K |-> <<
        1190, 1190, 1181, 1183, 1163, 1182,
        877, 881, 1183, 1479, 1487, 1181,
        1184, 1187, 1181, 1172, 1187, 1181,
        875, 881, 1172, 1483, 1490, 1175,
        1191, 1183, 1183, 1179, 1182, 1175,
        877, 881, 1183, 1479, 1487, 1181 >>,
     BU_FIMA |-> <<
        7058, 7470, 7657, 7839, 7730, 7576,
        7338, 7726, 7908, 8081, 8020, 7716,
        3498, 3681, 3741, 3852, 3842, 3740,
        5936, 6229, 6399, 6517, 6451, 6237,
        5485, 5751, 5985, 5990, 5983, 5863,
        3757, 4027, 4096, 4217, 4163, 3958 >>,
     TD_pct |-> <<
        9289, 9421, 9343, 9473, 9521, 9576,
        9479, 9436, 9319, 9200, 9501, 9549,
        8909, 8627, 8902, 9521, 9591, 9450,
        9433, 9545, 9559, 9348, 9605, 9560,
        8730, 8857, 8819, 9327, 9407, 9632,
        9410, 9543, 9563, 9514, 9614, 9501 >>]

Row(id, tg, t, bu, td) ==
    [Sample_ID |-> id, Target |-> tg, T_K |-> t, BU_FIMA |-> bu, TD_pct |-> td]

\* df = pd.DataFrame(data)
DataFrame(d) ==
    [i \in 1..Len(d.Sample_ID) |->
        Row(d.Sample_ID[i], d.Target[i], Dec(d.T_K[i], 0),
            Dec(d.BU_FIMA[i], -3), Dec(d.TD_pct[i], -2))]

\* The sigmoid with the + 1.0 of its denominator left out.
storms_fgr_no_offset(T_K, BU, TD) ==
    CHOOSE r \in
        {Div(Dec(100, 0),
             Exp(Mul(Dec(25, -4),
                     Sub(PyDiv(scalar, Mul(Dec(90, 0), TD077), BU009), T_K)))) :
           TD077 \in {Pow(scalar, TD, Dec(77, -2))},
           BU009 \in {Pow(scalar, BU, Dec(9, -2))}} : TRUE

\* TD077 is TD**0.77 and BU009 is BU**0.09.
storms_fgr(T_K, BU, TD) ==
    CHOOSE r \in
        {Div(Dec(100, 0),
             Add(Exp(Mul(Dec(25, -4),
                         Sub(PyDiv(scalar, Mul(Dec(90, 0), TD077), BU009), T_K))),
                 Dec(1, 0))) :
           TD077 \in {Pow(scalar, TD, Dec(77, -2))},
           BU009 \in {Pow(scalar, BU, Dec(9, -2))}} : TRUE

\* BU192 is BU**1.92.
rogozkin_fgr(T_K, BU) ==
    CHOOSE r \in
        {Mul(Mul(Dec(305, -2), BU192), Exp(PyDiv(scalar, Dec(-2086, 0), T_C))) :
           T_C \in {Sub(T_K, Dec(27315, -2))},
           BU192 \in {Pow(scalar, BU, Dec(192, -2))}} : TRUE

\* abs(x)
AbsV(a) == IF Plain(a) THEN [a EXCEPT !.m = Abs(a.m)] ELSE a
AbsF(x) == CHOOSE r \in {AbsV(a) : a \in {x}} : TRUE

DELTA_T == Dec(30, 0)
DELTA_BU == Dec(5, -1)
DELTA_TD == Dec(2, 0)

H_T == Dec(1, 0)
H_BU == Dec(1, -2)
H_TD == Dec(1, -1)

\* A difference quotient divided by h instead of 2 * h.
CentralDiffNoTwo(fplus, fminus, h) == Div(Sub(fplus, fminus), h)

\* (f(x + h) - f(x - h)) / (2 * h), given the two evaluations.
CentralDiff(fplus, fminus, h) == Div(Sub(fplus, fminus), Mul(Dec(2, 0), h))

\* A term that is not squared.
VarTermLinear(dfdx, delta) == AbsF(Mul(dfdx, delta))

\* (dfdx * DELTA) ** 2
VarTerm(dfdx, delta) == Square(Mul(dfdx, delta))

\* A share reported as a fraction of 1 instead of a percentage.
PctAsFraction(var, var_total) ==
    IF Gt(var_total, Zero) THEN Div(var, var_total) ELSE Zero

\* A share computed without the guard on the total.
PctUnguarded(var, var_total) == Div(Mul(Dec(100, 0), var), var_total)

\* 100 * var / var_total if var_total > 0 else 0
PctV(var, var_total) ==
    IF Gt(var_total, Zero) THEN Div(Mul(Dec(100, 0), var), var_total) ELSE Zero
Pct(x, y) == CHOOSE r \in {PctV(a, b) : a \in {x}, b \in {y}} : TRUE


Names ==
    {"T", "BU", "TD",
     "fgr_s", "dfdT_s", "dfdBU_s", "dfdTD_s",
     "var_T_s", "var_BU_s", "var_TD_s", "var_total_s", "sigma_s",
     "fgr_r", "dfdT_r", "dfdBU_r",
     "var_T_r", "var_BU_r", "var_total_r", "sigma_r"}

NoNames == [n \in Names |-> Unbound]

\* One assignment statement name = val after the statements that gave st:
\* nothing once an exception is up; an exception in val leaves name as it was.
BindV(st, name, val) ==
    IF st.exc # "" THEN st
    ELSE IF IsErr(val) THEN [st EXCEPT !.exc = val.x]
    ELSE IF val.k = "unbound" THEN [st EXCEPT !.exc = "NameError"]
    ELSE [st EXCEPT !.env[name] = val]

\* Calls whose perturbation is the uncertainty magnitude instead of the step.
CallsDeltaStep(name, e) ==
    CASE name \in {"fgr_s", "fgr_r"} -> << <<e["T"], e["BU"], e["TD"]>> >>
      [] name \in {"dfdT_s", "dfdT_r"} ->
            << <<Add(e["T"], DELTA_T), e["BU"], e["TD"]>>,
               <<Sub(e["T"], DELTA_T), e["BU"], e["TD"]>> >>
      [] name \in {"dfdBU_s", "dfdBU_r"} ->
            << <<e["T"], Add(e["BU"], DELTA_BU), e["TD"]>>,
               <<e["T"], Sub(e["BU"], DELTA_BU), e["TD"]>> >>
      [] name = "dfdTD_s" ->
            << <<e["T"], e["BU"], Add(e["TD"], DELTA_TD)>>,
               <<e["T"], e["BU"], Sub(e["TD"], DELTA_TD)>> >>
      [] OTHER -> << >>

\* The calls of a correlation in the right-hand side of the statement that
\* assigns name, left to right, each as its arguments <<T_K, BU, TD>>.
Calls(name, e) ==
    CASE name \in {"fgr_s", "fgr_r"} -> << <<e["T"], e["BU"], e["TD"]>> >>
      [] name \in {"dfdT_s", "dfdT_r"} ->
            << <<Add(e["T"], H_T), e["BU"], e["TD"]>>,
               <<Sub(e["T"], H_T), e["BU"], e["TD"]>> >>
      [] name \in {"dfdBU_s", "dfdBU_r"} ->
            << <<e["T"], Add(e["BU"], H_BU), e["TD"]>>,
               <<e["T"], Sub(e["BU"], H_BU), e["TD"]>> >>
      [] name = "dfdTD_s" ->
            << <<e["T"], e["BU"], Add(e["TD"], H_TD)>>,
               <<e["T"], e["BU"], Sub(e["TD"], H_TD)>> >>
      [] OTHER -> << >>

\* Calls in which rogozkin_fgr is given a burnup weighted by the density.
ReturnedDensityWeighted(name, e) ==
    [i \in DOMAIN Calls(name, e) |->
        LET c == Calls(name, e)[i]
        IN IF name \in {"fgr_s", "dfdT_s", "dfdBU_s", "dfdTD_s"}
           THEN storms_fgr(c[1], c[2], c[3])
           ELSE rogozkin_fgr(c[1], Mul(c[2], Div(c[3], Dec(100, 0))))]

\* What those calls return: the Storms statements call storms_fgr, the
\* Rogozkin statements rogozkin_fgr (which takes no TD).
Returned(name, e) ==
    [i \in DOMAIN Calls(name, e) |->
        LET c == Calls(name, e)[i]
        IN IF name \in {"fgr_s", "dfdT_s", "dfdBU_s", "dfdTD_s"}
           THEN storms_fgr(c[1], c[2], c[3])
           ELSE rogozkin_fgr(c[1], c[2])]

\* The right-hand side of the statement that assigns name, read in e; row is
\* the row of the iteration and f the values its correlation calls return.
RhsV(name, e, row, f) ==
    CASE name = "T" -> row.T_K
      [] name = "BU" -> row.BU_FIMA
      [] name = "TD" -> row.TD_pct
      \* --- Storms ---
      [] name = "fgr_s" -> f[1]
      [] name = "dfdT_s" -> CentralDiff(f[1], f[2], H_T)
      [] name = "dfdBU_s" -> CentralDiff(f[1], f[2], H_BU)
      [] name = "dfdTD_s" -> CentralDiff(f[1], f[2], H_TD)
      [] name = "var_T_s" -> VarTerm(e["dfdT_s"], DELTA_T)
      [] name = "var_BU_s" -> VarTerm(e["dfdBU_s"], DELTA_BU)
      [] name = "var_TD_s" -> VarTerm(e["dfdTD_s"], DELTA_TD)
      [] name = "var_total_s" ->
            Add(Add(e["var_T_s"], e["var_BU_s"]), e["var_TD_s"])
      [] name = "sigma_s" -> Sqrt(e["var_total_s"])
      \* --- Rogozkin ---
      [] name = "fgr_r" -> f[1]
      [] name = "dfdT_r" -> CentralDiff(f[1], f[2], H_T)
      [] name = "dfdBU_r" -> CentralDiff(f[1], f[2], H_BU)
      [] name = "var_T_r" -> VarTerm(e["dfdT_r"], DELTA_T)
      [] name = "var_BU_r" -> VarTerm(e["dfdBU_r"], DELTA_BU)
      [] name = "var_total_r" -> Add(e["var_T_r"], e["var_BU_r"])
      [] name = "sigma_r" -> Sqrt(e["var_total_r"])
Rhs(name, e, row) ==
    CHOOSE r \in {RhsV(name, e, row, f) : f \in {Returned(name, e)}} : TRUE

\* The statements of the loop body, in the order of the source.
RowStmts == <<"T", "BU", "TD">>
StormsStmts ==
    <<"fgr_s", "dfdT_s", "dfdBU_s", "dfdTD_s",
      "var_T_s", "var_BU_s", "var_TD_s", "var_total_s", "sigma_s">>
RogozkinStmts ==
    <<"fgr_r", "dfdT_r", "dfdBU_r", "var_T_r", "var_BU_r", "var_total_r", "sigma_r">>

Bind(st, name, row) ==
    IF st.exc # "" THEN st
    ELSE CHOOSE r \in {BindV(st, name, v) : v \in {Rhs(name, st.env, row)}} : TRUE

RECURSIVE Exec(_, _, _)
\* Statements stmts run in order from st = [env, exc].
Exec(st, stmts, row) ==
    IF stmts = <<>> THEN st
    ELSE CHOOSE r \in {Exec(s1, Tail(stmts), row) :
                         s1 \in {Bind(st, Head(stmts), row)}} : TRUE

Start(e) == [env |-> e, exc |-> ""]

\* A loop body that reads BU from the row only when BU is not bound yet.
RowBlockHoisted(e, row) ==
    IF e["BU"].k = "unbound" THEN Exec(Start(e), RowStmts, row)
    ELSE Exec(Start(e), <<"T", "TD">>, row)

RowBlock(e, row) == Exec(Start(e), RowStmts, row)
StormsBlock(e, row) == Exec(Start(e), StormsStmts, row)
RogozkinBlock(e, row) == Exec(Start(e), RogozkinStmts, row)

\* The dict appended to results.
ResultRow(row, e) ==
    [Sample_ID |-> row.Sample_ID,
     Target |-> row.Target,
     T_K |-> e["T"],
     BU_FIMA |-> e["BU"],
     TD_pct |-> e["TD"],
     FGR_Storms |-> e["fgr_s"],
     sigma_Storms |-> e["sigma_s"],
     Storms_var_T_pct |-> Pct(e["var_T_s"], e["var_total_s"]),
     Storms_var_BU_pct |-> Pct(e["var_BU_s"], e["var_total_s"]),
     Storms_var_TD_pct |-> Pct(e["var_TD_s"], e["var_total_s"]),
     FGR_Rogozkin |-> e["fgr_r"],
     sigma_Rogozkin |-> e["sigma_r"],
     Rogozkin_var_T_pct |-> Pct(e["var_T_r"], e["var_total_r"]),
     Rogozkin_var_BU_pct |-> Pct(e["var_BU_r"], e["var_total_r"]),
     Abs_Discrepancy |-> AbsF(Sub(e["fgr_s"], e["fgr_r"]))]


-----------------------------------------------------------------------------
(* The script as a state machine: one action per block of the loop body.   *)

NoCall == [fn |-> "none"]

InitLoop(table) ==
    /\ scalar \in {"py", "np"}
    /\ df = table
    /\ pos = 0
    /\ pc = "for"
    /\ env = NoNames
    /\ exc = ""
    /\ results = <<>>
    /\ res_df = <<>>
    /\ call = NoCall
    /\ ret = Unbound

\* The run of the script as written: the 36 specimens of data.
Init == InitLoop(DataFrame(data))

\* for _, row in df.iterrows(): the next row, and the three reads of it.
Fetch ==
    /\ pc = "for"
    /\ pos < Len(df)
    /\ \E st \in {RowBlock(env, df[pos + 1])} :
          /\ env' = st.env
          /\ exc' = st.exc
          /\ pc' = IF st.exc # "" THEN "raised" ELSE "storms"
    /\ pos' = pos + 1
    /\ UNCHANGED <<scalar, df, results, res_df, call, ret>>

\* Lines 113-123.  An exception is caught nowhere: it ends the script.
Storms ==
    /\ pc = "storms"
    /\ \E st \in {StormsBlock(env, df[pos])} :
          /\ env' = st.env
          /\ exc' = st.exc
          /\ pc' = IF st.exc # "" THEN "raised" ELSE "rogozkin"
    /\ UNCHANGED <<scalar, df, pos, results, res_df, call, ret>>

\* Lines 126-134.
Rogozkin ==
    /\ pc = "rogozkin"
    /\ \E st \in {RogozkinBlock(env, df[pos])} :
          /\ env' = st.env
          /\ exc' = st.exc
          /\ pc' = IF st.exc # "" THEN "raised" ELSE "append"
    /\ UNCHANGED <<scalar, df, pos, results, res_df, call, ret>>

\* An append that puts the dict in results twice.
AppendRowTwice ==
    /\ pc = "append"
    /\ results' = Append(Append(results, ResultRow(df[pos], env)), ResultRow(df[pos], env))
    /\ pc' = "for"
    /\ UNCHANGED <<scalar, df, pos, env, exc, res_df, call, ret>>

\* results.append({...})
AppendRow ==
    /\ pc = "append"
    /\ results' = Append(results, ResultRow(df[pos], env))
    /\ pc' = "for"
    /\ UNCHANGED <<scalar, df, pos, env, exc, res_df, call, ret>>

\* The iterator is exhausted: res_df = pd.DataFrame(results)
Finish ==
    /\ pc = "for"
    /\ pos = Len(df)
    /\ res_df' = results
    /\ pc' = "done"
    /\ UNCHANGED <<scalar, df, pos, env, exc, results, call, ret>>

Next == Fetch \/ Storms \/ Rogozkin \/ AppendRow \/ Finish

Spec == Init /\ [][Next]_vars

\* The interpreter runs the script statement after statement: a step that
\* can be taken is taken.
SpecFair == Spec /\ WF_vars(Next)

-----------------------------------------------------------------------------
(* The same loop over any table of specimens.  The loop body reads nothing *)
(* of data but the three columns of the row at hand, so what it does on a  *)
(* table with a degenerate row (a total variance of 0, a burnup of 0) is   *)
(* read off tables built from a few such rows.                             *)

MaxRows == 2

\* Rows the tables are built from: a specimen of data, one hot enough for the
\* Storms sigmoid to saturate, one with no burnup, one just above 0 Celsius,
\* and one that differs from the specimen of data in density only.
Specimens ==
    DataFrame([Sample_ID |-> <<"RRN01-6", "HOT", "FRESH", "COLD", "DENSE">>,
               Target |-> <<1, 0, 0, 0, 0>>,
               T_K |-> <<1190, 20000, 1190, 275, 1190>>,
               BU_FIMA |-> <<7058, 7058, 0, 7000, 7058>>,
               TD_pct |-> <<9289, 9289, 9289, 9300, 9900>>])

InitAny ==
    \E n \in 1..MaxRows :
        \E c \in [1..n -> 1..Len(Specimens)] :
            InitLoop([i \in 1..n |-> Specimens[c[i]]])

SpecAny == InitAny /\ [][Next]_vars


-----------------------------------------------------------------------------
(* figure14_fgr_comparison.py: its own copy of the dataset, of the two      *)
(* correlations and of the constants, and the propagation as two functions. *)
(* BU is in thousandths and TD in hundredths, as in data.                   *)

fig14_data ==
    [Target |-> <<
        1, 1, 1, 1, 1, 1,
        2, 2, 2, 2, 2, 2,
        3, 3, 3, 3, 3, 3,
        4, 4, 4, 4, 4, 4,
        5, 5, 5, 5, 5, 5,
        6, 6, 6, 6, 6, 6 >>,
     Sample_ID |-> <<
        "RRN01-6", "RRN01-5", "RRN01-4", "RRN01-3", "RRN01-2", "RRN01-1",
        "RRN02-6", "RRN02-5", "RRN02-4", "RRN02-3", "RRN02-2", "RRN02-1",
        "RRN03-6", "RRN03-5", "RRN03-4", "RRN03-3", "RRN03-2", "RRN03-1",
        "RRN04-6", "RRN04-5", "RRN04-4", "RRN04-3", "RRN04-2", "RRN04-1",
        "RRN05-6", "RRN05-5", "RRN05-4", "RRN05-3", "RRN05-2", "RRN05-1",
        "RRN06-6", "RRN06-5", "RRN06-4", "RRN06-3", "RRN06-2", "RRN06-1" >>,
     BU |-> <<
        7058, 7470, 7657, 7839, 7730, 7576,
        7338, 7726, 7908, 8081, 8020, 7716,
        3498, 3681, 3741, 3852, 3842, 3740,
        5936, 6229, 6399, 6517, 6451, 6237,
        5485, 5751, 5985, 5990, 5983, 5863,
        3757, 4027, 4096, 4217, 4163, 3958 >>,
     T |-> <<
        1190, 1190, 1181, 1183, 1163, 1182,
        877, 881, 1183, 1479, 1487, 1181,
        1184, 1187, 1181, 1172, 1187, 1181,
        875, 881, 1172, 1483, 1490, 1175,
        1191, 1183, 1183, 1179, 1182, 1175,
        877, 881, 1183, 1479, 1487, 1181 >>,
     TD |-> <<
        9289, 9421, 9343, 9473, 9521, 9576,
        9479, 9436, 9319, 9200, 9501, 9549,
        8909, 8627, 8902, 9521, 9591, 9450,
        9433, 9545, 9559, 9348, 9605, 9560,
        8730, 8857, 8819, 9327, 9407, 9632,
        9410, 9543, 9563, 9514, 9614, 9501 >>]

\* df = pd.DataFrame(data)
fig14_df ==
    [i \in 1..Len(fig14_data.Sample_ID) |->
        [Target |-> fig14_data.Target[i], Sample_ID |-> fig14_data.Sample_ID[i],
         BU |-> Dec(fig14_data.BU[i], -3), T |-> Dec(fig14_data.T[i], 0),
         TD |-> Dec(fig14_data.TD[i], -2)]]

fig14_storms_fgr(T_K, BU, TD) ==
    CHOOSE r \in
        {Div(Dec(100, 0),
             Add(Exp(Mul(Dec(25, -4),
                         Sub(PyDiv(scalar, Mul(Dec(90, 0), TD077), BU009), T_K))),
                 Dec(1, 0))) :
           TD077 \in {Pow(scalar, TD, Dec(77, -2))},
           BU009 \in {Pow(scalar, BU, Dec(9, -2))}} : TRUE

fig14_rogozkin_fgr(T_K, BU) ==
    CHOOSE r \in
        {Mul(Mul(Dec(305, -2), BU192), Exp(PyDiv(scalar, Dec(-2086, 0), T_C))) :
           T_C \in {Sub(T_K, Dec(27315, -2))},
           BU192 \in {Pow(scalar, BU, Dec(192, -2))}} : TRUE

dT == Dec(30, 0)
dBU == Dec(5, -1)
dTD == Dec(2, 0)

\* A burnup step ten times the one of the script.
h_BU_coarse == Dec(1, -1)

h_T == Dec(1, 0)
h_BU == Dec(1, -2)
h_TD == Dec(1, -1)

\* The seven calls of storms_fgr in propagate_storms, in the order of the
\* source, and what they return.
propagate_storms_calls(T, BU, TD) ==
    [i \in 1..7 |->
        LET a == << <<T, BU, TD>>,
                    <<Add(T, h_T), BU, TD>>, <<Sub(T, h_T), BU, TD>>,
                    <<T, Add(BU, h_BU), TD>>, <<T, Sub(BU, h_BU), TD>>,
                    <<T, BU, Add(TD, h_TD)>>, <<T, BU, Sub(TD, h_TD)>> >>[i]
        IN fig14_storms_fgr(a[1], a[2], a[3])]

\* The rest of propagate_storms, given what its calls return: the tuple
\* (fgr, sigma), or the exception raised on the way.
propagate_storms_V(f) ==
    LET df_dT == Div(Sub(f[2], f[3]), Mul(Dec(2, 0), h_T))
        df_dBU == Div(Sub(f[4], f[5]), Mul(Dec(2, 0), h_BU))
        df_dTD == Div(Sub(f[6], f[7]), Mul(Dec(2, 0), h_TD))
        sigma == Sqrt(Add(Add(Square(Mul(df_dT, dT)), Square(Mul(df_dBU, dBU))),
                          Square(Mul(df_dTD, dTD))))
    IN IF IsErr(f[1]) THEN f[1]
       ELSE CHOOSE r \in {IF IsErr(sg) THEN sg ELSE <<f[1], sg>> : sg \in {sigma}} : TRUE

propagate_storms(T, BU, TD) ==
    CHOOSE r \in {propagate_storms_V(f) : f \in {propagate_storms_calls(T, BU, TD)}} : TRUE

\* The five calls of rogozkin_fgr in propagate_rogozkin.
propagate_rogozkin_calls(T, BU) ==
    [i \in 1..5 |->
        LET a == << <<T, BU>>,
                    <<Add(T, h_T), BU>>, <<Sub(T, h_T), BU>>,
                    <<T, Add(BU, h_BU)>>, <<T, Sub(BU, h_BU)>> >>[i]
        IN fig14_rogozkin_fgr(a[1], a[2])]

propagate_rogozkin_V(f) ==
    LET df_dT == Div(Sub(f[2], f[3]), Mul(Dec(2, 0), h_T))
        df_dBU == Div(Sub(f[4], f[5]), Mul(Dec(2, 0), h_BU))
        sigma == Sqrt(Add(Square(Mul(df_dT, dT)), Square(Mul(df_dBU, dBU))))
    IN IF IsErr(f[1]) THEN f[1]
       ELSE CHOOSE r \in {IF IsErr(sg) THEN sg ELSE <<f[1], sg>> : sg \in {sigma}} : TRUE

propagate_rogozkin(T, BU) ==
    CHOOSE r \in {propagate_rogozkin_V(f) : f \in {propagate_rogozkin_calls(T, BU)}} : TRUE


-----------------------------------------------------------------------------
(* Direct calls: one call of a correlation, of the variance terms, of the  *)
(* central difference or of a propagation function of figure14, on         *)
(* arguments from a small set.                                             *)

\* Arguments of the correlations: values of data, and values at and beyond the
\* edges of their domains.
ArgT == {Dec(1190, 0), Dec(877, 0), Dec(20000, 0), Dec(200, 0),
         Dec(27315, -2), Dec(27215, -2)}
ArgBU == {Dec(7058, -3), Zero, Dec(-1, 0)}
ArgTD == {Dec(9289, -2), Dec(2000000, 0)}

\* Derivatives for the variance terms (dfdT_s, dfdBU_s, dfdTD_s of two
\* specimens, to 8 digits), and the factors that scale an uncertainty.
ArgDfd ==
    {<<Dec(93463120, -10), Dec(-98924000, -9), Dec(63750000, -8)>>,
     <<Dec(12345678, -9), Dec(-33333333, -8), Dec(77777777, -8)>>}
ArgK == {Dec(2, 0), Dec(3, 0), Dec(10, 0)}

\* Points and steps for the central difference of x ** 2.
ArgX == {Dec(1190, 0), Dec(7058, -3), Dec(9289, -2), Dec(2, 0)}
ArgH == {H_T, H_BU, H_TD, Dec(1, -17)}

\* The rows that the lambdas of df.apply pass to the propagation functions,
\* and the hypothetical specimens as such rows.
ArgRows ==
    {fig14_df[i] : i \in DOMAIN fig14_df}
    \cup {[Target |-> 0, Sample_ID |-> Specimens[i].Sample_ID, BU |-> Specimens[i].BU_FIMA,
            T |-> Specimens[i].T_K, TD |-> Specimens[i].TD_pct] : i \in DOMAIN Specimens}

CallSet ==
    {[fn |-> "storms_fgr", T_K |-> t, BU |-> b, TD |-> d] :
        t \in {Dec(1190, 0), Dec(877, 0), Dec(20000, 0)}, b \in ArgBU, d \in ArgTD}
    \cup {[fn |-> "rogozkin_fgr", T_K |-> t, BU |-> b] : t \in ArgT, b \in ArgBU}
    \cup {[fn |-> "variance", dfd |-> g, which |-> w, k |-> k] :
            g \in ArgDfd, w \in {"T", "BU", "TD"}, k \in ArgK}
    \cup {[fn |-> "central_diff", x |-> x, h |-> h] : x \in ArgX, h \in ArgH}
    \cup {[fn |-> f, T |-> r.T, BU |-> r.BU, TD |-> r.TD] :
            f \in {"propagate_storms", "propagate_rogozkin"}, r \in ArgRows}

InitCall ==
    /\ scalar \in {"py", "np"}
    /\ df = <<>>
    /\ pos = 0
    /\ pc = "call"
    /\ env = NoNames
    /\ exc = ""
    /\ results = <<>>
    /\ res_df = <<>>
    /\ call \in CallSet
    /\ ret = Unbound

\* What a call leaves: its value v, or the exception x it raised.
Return(v, x) ==
    /\ ret' = v
    /\ exc' = x
    /\ pc' = "returned"
    /\ UNCHANGED <<scalar, df, pos, env, results, res_df, call>>

CallStorms ==
    /\ pc = "call"
    /\ call.fn = "storms_fgr"
    /\ \E v \in {storms_fgr(call.T_K, call.BU, call.TD)} : Return(v, v.x)

CallRogozkin ==
    /\ pc = "call"
    /\ call.fn = "rogozkin_fgr"
    /\ \E v \in {rogozkin_fgr(call.T_K, call.BU)} : Return(v, v.x)

\* The uncertainty magnitudes with the one named which multiplied by k.
Scaled(which, k) ==
    [T |-> IF which = "T" THEN Mul(k, DELTA_T) ELSE DELTA_T,
     BU |-> IF which = "BU" THEN Mul(k, DELTA_BU) ELSE DELTA_BU,
     TD |-> IF which = "TD" THEN Mul(k, DELTA_TD) ELSE DELTA_TD]

\* The three variance terms of lines 119-121 for derivatives dfd and
\* uncertainty magnitudes delta.
VarTerms(dfd, delta) ==
    [T |-> VarTerm(dfd[1], delta.T),
     BU |-> VarTerm(dfd[2], delta.BU),
     TD |-> VarTerm(dfd[3], delta.TD)]

CallVariance ==
    /\ pc = "call"
    /\ call.fn = "variance"
    /\ Return(VarTerms(call.dfd, Scaled(call.which, call.k)), "")

\* The central difference of the source with x ** 2 in the place of the
\* correlation.
CallCentralDiff ==
    /\ pc = "call"
    /\ call.fn = "central_diff"
    /\ Return(CentralDiff(Square(Add(call.x, call.h)),
                          Square(Sub(call.x, call.h)), call.h), "")

\* The exception that v stands for, if it does.
Raised(v) == IF DOMAIN v = {1, 2} THEN "" ELSE v.x

\* lambda r: propagate_storms(r["T"], r["BU"], r["TD"])
CallPropagateStorms ==
    /\ pc = "call"
    /\ call.fn = "propagate_storms"
    /\ \E v \in {propagate_storms(call.T, call.BU, call.TD)} : Return(v, Raised(v))

\* lambda r: propagate_rogozkin(r["T"], r["BU"])
CallPropagateRogozkin ==
    /\ pc = "call"
    /\ call.fn = "propagate_rogozkin"
    /\ \E v \in {propagate_rogozkin(call.T, call.BU)} : Return(v, Raised(v))

NextCall ==
    \/ CallStorms \/ CallRogozkin \/ CallVariance \/ CallCentralDiff
    \/ CallPropagateStorms \/ CallPropagateRogozkin

SpecCall == InitCall /\ [][NextCall]_vars

-----------------------------------------------------------------------------
(* Properties.                                                             *)

\* The specimen at pos has been processed and its dict is the last of
\* results; env still holds the names its iteration bound.
Reported == pc = "for" /\ pos > 0 /\ Len(results) = pos

\* |x - 100| < 0.0001, the rounding of an 8-digit sum of shares.
Near100(x) == Lt(AbsF(Sub(x, Dec(100, 0))), Dec(1, -4))

StormsPctSum(r) ==
    Add(Add(r.Storms_var_T_pct, r.Storms_var_BU_pct), r.Storms_var_TD_pct)
RogozkinPctSum(r) == Add(r.Rogozkin_var_T_pct, r.Rogozkin_var_BU_pct)

\* C1: for every specimen of data and both correlations, when the total
\* variance is > 0 the reported percentage contributions of the inputs sum to
\* 100, up to floating-point rounding.
C1_ContributionsSumTo100 ==
    Reported =>
        /\ Gt(env["var_total_s"], Zero) => Near100(StormsPctSum(results[pos]))
        /\ Gt(env["var_total_r"], Zero) => Near100(RogozkinPctSum(results[pos]))

\* C1 witness: the last specimen of data is reported with both total
\* variances > 0 and a temperature share of Storms strictly inside (0, 100).
C1_Witness ==
    /\ Reported
    /\ pos = 36
    /\ Gt(env["var_total_s"], Zero)
    /\ Gt(env["var_total_r"], Zero)
    /\ Gt(results[pos].Storms_var_T_pct, Zero)
    /\ Lt(results[pos].Storms_var_T_pct, Dec(100, 0))

\* C2: when the total variance of a correlation at a specimen is exactly 0,
\* every contribution reported for that correlation is 0 (no division by the
\* zero total), and the specimen is reported like any other.
C2_ZeroVarianceReportsZero ==
    Reported =>
        /\ IsZero(env["var_total_s"]) =>
              /\ results[pos].Storms_var_T_pct = Zero
              /\ results[pos].Storms_var_BU_pct = Zero
              /\ results[pos].Storms_var_TD_pct = Zero
        /\ IsZero(env["var_total_r"]) =>
              /\ results[pos].Rogozkin_var_T_pct = Zero
              /\ results[pos].Rogozkin_var_BU_pct = Zero

\* C2 witness: a specimen is reported whose Storms total variance is 0 (the
\* sigmoid is saturated at 100) while its Rogozkin total variance is not.
C2_Witness ==
    /\ Reported
    /\ IsZero(env["var_total_s"])
    /\ IsZero(env["dfdT_s"]) /\ IsZero(env["dfdBU_s"]) /\ IsZero(env["dfdTD_s"])
    /\ Gt(env["var_total_r"], Zero)
    /\ results[pos].Storms_var_T_pct = Zero

\* A direct call of fn has returned or raised.
CallEnded(fn) == pc = "returned" /\ call.fn = fn

\* C3: a call of storms_fgr or rogozkin_fgr with BU = 0 or BU < 0 ends in an
\* error (an exception of any kind), never in a value.
C3_BurnupDomainError ==
    /\ (CallEnded("storms_fgr") /\ ~Gt(call.BU, Zero)) => IsErr(ret)
    /\ (CallEnded("rogozkin_fgr") /\ ~Gt(call.BU, Zero)) => IsErr(ret)

\* C4: a call of rogozkin_fgr with T_K <= 273.15 ends in an error, never in
\* a value.
C4_ColdTemperatureRejected ==
    (CallEnded("rogozkin_fgr") /\ ~Gt(call.T_K, Dec(27315, -2))) => IsErr(ret)

\* C5: an error raised while one specimen is processed does not end the run:
\* the script is never stopped by an exception.
C5_ErrorConfinedToSpecimen == pc # "raised"

\* The arguments of the storms_fgr call are all > 0.
PositiveInputs ==
    Gt(call.T_K, Zero) /\ Gt(call.BU, Zero) /\ Gt(call.TD, Zero)

\* C6 as stated: for positive inputs the value of storms_fgr is strictly
\* greater than 0 and strictly less than 100.
C6_StormsStrictlyInside ==
    (CallEnded("storms_fgr") /\ PositiveInputs) =>
        Gt(ret, Zero) /\ Lt(ret, Dec(100, 0))

\* C6, amended: for positive inputs the value of storms_fgr is a finite float
\* in the closed interval [0, 100]; both ends are attained.
C6_StormsWithinClosedRange ==
    (CallEnded("storms_fgr") /\ PositiveInputs) =>
        IsFin(ret) /\ ~Lt(ret, Zero) /\ ~Gt(ret, Dec(100, 0))

\* C6 witness: a call with positive inputs returned exactly 100.0.
C6_Witness ==
    CallEnded("storms_fgr") /\ PositiveInputs /\ ret = Dec(100, 0)

\* The uncertainty magnitudes of the source, and the variance terms they give
\* for the derivatives of the call.
Deltas == [T |-> DELTA_T, BU |-> DELTA_BU, TD |-> DELTA_TD]
BaseTerms == VarTerms(call.dfd, Deltas)

\* |a - b| < 10^-6 * |b|
RelClose(a, b) == Lt(AbsF(Sub(a, b)), Mul(Dec(1, -6), AbsF(b)))

\* C7 as stated: with the derivatives fixed, multiplying one uncertainty
\* magnitude by k multiplies that input's variance term by exactly k^2 and
\* leaves the other variance terms unchanged.
C7_ScalingExact ==
    CallEnded("variance") =>
        \A w \in {"T", "BU", "TD"} :
            ret[w] = IF w = call.which THEN Mul(Square(call.k), BaseTerms[w])
                     ELSE BaseTerms[w]

\* C7, amended: the scaled input's variance term is k^2 times the unscaled
\* one up to floating-point rounding (a relative 10^-6 here), and the other
\* variance terms are unchanged bit for bit.
C7_ScalingUpToRounding ==
    CallEnded("variance") =>
        \A w \in {"T", "BU", "TD"} :
            IF w = call.which THEN RelClose(ret[w], Mul(Square(call.k), BaseTerms[w]))
            ELSE ret[w] = BaseTerms[w]

\* C7 witness: DELTA_T was scaled by 3 and its variance term is not exactly
\* 9 times the unscaled term.
C7_Witness ==
    /\ CallEnded("variance")
    /\ call.which = "T" /\ call.k = Dec(3, 0)
    /\ Gt(ret["T"], BaseTerms["T"])
    /\ ret["T"] # Mul(Dec(9, 0), BaseTerms["T"])

\* 2 * x, the derivative of x ** 2.
TwoX == Mul(Dec(2, 0), call.x)

\* The rounding of the two squares, carried through the division by 2 * h:
\* 8 * u * (|x| + h)^2 / h with u = 10^-7, the spacing of the 8-digit floats.
RoundingBound ==
    Div(Mul(Dec(8, -7), Square(Add(AbsF(call.x), call.h))), call.h)

\* C8 as stated: for any step h > 0 the central difference of x ** 2 is
\* within O(h^2) of 2 * x (here: within 10^6 * h^2).
C8_WithinOrderHSquared ==
    CallEnded("central_diff") =>
        ~Gt(AbsF(Sub(ret, TwoX)), Mul(Dec(1, 6), Square(call.h)))

\* C8, amended: the central difference of x ** 2 is within h^2 plus the
\* rounding bound of 2 * x; the rounding bound grows as h shrinks.
C8_WithinRounding ==
    CallEnded("central_diff") =>
        ~Gt(AbsF(Sub(ret, TwoX)), Add(Square(call.h), RoundingBound))

\* C8 witness: with the step H_BU of the source the central difference of
\* x ** 2 at x = 7.058 is 2 * x.
C8_Witness ==
    /\ CallEnded("central_diff")
    /\ call.h = H_BU /\ call.x = Dec(7058, -3)
    /\ ret = TwoX

\* The names bound by processing row alone, from a fresh namespace: all
\* three blocks, or the row reads and the Rogozkin block only.
AloneEnv(row) ==
    Exec(Start(NoNames), RowStmts \o StormsStmts \o RogozkinStmts, row).env
RogozkinAloneEnv(row) ==
    Exec(Start(NoNames), RowStmts \o RogozkinStmts, row).env

\* The dict that row gives when it is the only specimen processed.
Alone(row) == CHOOSE r \in {ResultRow(row, e) : e \in {AloneEnv(row)}} : TRUE

RogozkinFields(r) ==
    <<r.FGR_Rogozkin, r.sigma_Rogozkin, r.Rogozkin_var_T_pct, r.Rogozkin_var_BU_pct>>

\* The Rogozkin fields that row gives when the Storms block never ran.
RogozkinAlone(row) ==
    CHOOSE f \in {<<e["fgr_r"], e["sigma_r"],
                    Pct(e["var_T_r"], e["var_total_r"]),
                    Pct(e["var_BU_r"], e["var_total_r"])>> :
                    e \in {RogozkinAloneEnv(row)}} : TRUE

\* C9: every result appended is the one its specimen gives when processed
\* alone from a fresh namespace, whatever specimens came before it and in
\* whatever order, and its Rogozkin fields are the ones computed without
\* the Storms block: nothing written for one specimen or one correlation is
\* read for another.
C9_SpecimenIndependence ==
    \A i \in 1..Len(results) :
        \E r \in {results[i]} :
            /\ r = Alone(df[i])
            /\ RogozkinFields(r) = RogozkinAlone(df[i])

\* C9 witness: two different specimens were processed one after the other
\* and gave different results.
C9_Witness ==
    /\ Len(results) = 2
    /\ df[1].BU_FIMA # df[2].BU_FIMA
    /\ df[1].T_K # df[2].T_K
    /\ results[1].FGR_Storms # results[2].FGR_Storms
    /\ results[1].FGR_Rogozkin # results[2].FGR_Rogozkin

\* The step constant of each input.
Steps == [T |-> H_T, BU |-> H_BU, TD |-> H_TD]

\* The specimen values <<T, BU, TD>> of e with the one input which moved by d.
Perturbed(e, which, d) ==
    <<IF which = "T" THEN Add(e["T"], d) ELSE e["T"],
      IF which = "BU" THEN Add(e["BU"], d) ELSE e["BU"],
      IF which = "TD" THEN Add(e["TD"], d) ELSE e["TD"]>>

\* Correlation corr ("s" Storms, "r" Rogozkin) at the inputs a.
Corr(corr, a) ==
    IF corr = "s" THEN storms_fgr(a[1], a[2], a[3]) ELSE rogozkin_fgr(a[1], a[2])

\* The centered difference of corr in the one input which, with its own step.
Partial(corr, e, which) ==
    Div(Sub(Corr(corr, Perturbed(e, which, Steps[which])),
            Corr(corr, Perturbed(e, which, Neg(Steps[which])))),
        Mul(Dec(2, 0), Steps[which]))

\* The partial derivatives the loop body computes.
Partials == {<<"s", "T">>, <<"s", "BU">>, <<"s", "TD">>, <<"r", "T">>, <<"r", "BU">>}
DerivName(p) == "dfd" \o p[2] \o "_" \o p[1]

\* C11: each partial derivative of the loop body is the centered difference
\* in which exactly one input is moved, by +h and by -h of that input's own
\* step constant (H_T, H_BU, H_TD; never DELTA_*), every other input is at
\* its specimen value, and the difference is divided by 2 * h of that step.
C11_OneInputPerturbedByItsStep ==
    pc = "append" => \A p \in Partials : env[DerivName(p)] = Partial(p[1], env, p[2])

\* C11 witness: a specimen whose five partial derivatives are all computed
\* and nonzero.
C11_Witness ==
    /\ pc = "append"
    /\ \A p \in Partials : IsFin(env[DerivName(p)]) /\ ~IsZero(env[DerivName(p)])

\* The names of the loop body for each correlation: its variance terms with
\* the derivative and the uncertainty magnitude each is made of, its total
\* and its sigma, and the reported shares.
StormsTerms ==
    {<<"var_T_s", "dfdT_s", DELTA_T, "Storms_var_T_pct">>,
     <<"var_BU_s", "dfdBU_s", DELTA_BU, "Storms_var_BU_pct">>,
     <<"var_TD_s", "dfdTD_s", DELTA_TD, "Storms_var_TD_pct">>}
RogozkinTerms ==
    {<<"var_T_r", "dfdT_r", DELTA_T, "Rogozkin_var_T_pct">>,
     <<"var_BU_r", "dfdBU_r", DELTA_BU, "Rogozkin_var_BU_pct">>}

\* Terms t with total and sigma in e and shares in r: each term is
\* (derivative * magnitude) ** 2, sigma >= 0 and sigma ** 2 is the total (to
\* the rounding of the square root), each share is 100 * term / total.
Decomposed(t, total, sigma, e, r) ==
    /\ \A x \in t : e[x[1]] = Square(Mul(e[x[2]], x[3]))
    /\ ~Lt(e[sigma], Zero)
    /\ RelClose(Square(e[sigma]), e[total])
    /\ \A x \in t : r[x[4]] = Div(Mul(Dec(100, 0), e[x[1]]), e[total])

\* C12: for each correlation every variance term is (partial derivative *
\* uncertainty magnitude) squared, the total variance is the sum of exactly
\* that correlation's terms (three for Storms, two for Rogozkin, no cross
\* term), sigma >= 0 with sigma^2 the total, and every reported share is
\* 100 * term / total.
C12_VarianceDecomposition ==
    Reported =>
        /\ Decomposed(StormsTerms, "var_total_s", "sigma_s", env, results[pos])
        /\ env["var_total_s"] =
              Add(Add(env["var_T_s"], env["var_BU_s"]), env["var_TD_s"])
        /\ Decomposed(RogozkinTerms, "var_total_r", "sigma_r", env, results[pos])
        /\ env["var_total_r"] = Add(env["var_T_r"], env["var_BU_r"])

\* C12 witness: a specimen reported with positive totals, positive sigmas
\* and every share strictly between 0 and 100.
C12_Witness ==
    /\ Reported
    /\ Gt(env["sigma_s"], Zero) /\ Gt(env["sigma_r"], Zero)
    /\ \A x \in StormsTerms \cup RogozkinTerms :
          Gt(results[pos][x[4]], Zero) /\ Lt(results[pos][x[4]], Dec(100, 0))

\* C13: the Rogozkin outputs of a specimen (value, sigma, T and BU shares)
\* do not depend on its density: two specimens processed with equal T and
\* BU have identical Rogozkin outputs whatever their densities, and no
\* Rogozkin density share is reported.
C13_RogozkinIgnoresDensity ==
    \A i, j \in 1..Len(results) :
        /\ "Rogozkin_var_TD_pct" \notin DOMAIN results[i]
        /\ (results[i].T_K = results[j].T_K /\ results[i].BU_FIMA = results[j].BU_FIMA)
               => RogozkinFields(results[i]) = RogozkinFields(results[j])

\* C13 witness: two specimens of equal T and BU and different density were
\* processed; their Storms values differ and their Rogozkin value is one
\* positive number.
C13_Witness ==
    /\ Len(results) = 2
    /\ results[1].T_K = results[2].T_K
    /\ results[1].BU_FIMA = results[2].BU_FIMA
    /\ results[1].TD_pct # results[2].TD_pct
    /\ results[1].FGR_Storms # results[2].FGR_Storms
    /\ Gt(results[1].FGR_Rogozkin, Zero)
    /\ Gt(results[1].sigma_Rogozkin, Zero)

\* The fields of a result that hold numbers computed by the loop body.
ComputedFields ==
    {"FGR_Storms", "sigma_Storms",
     "Storms_var_T_pct", "Storms_var_BU_pct", "Storms_var_TD_pct",
     "FGR_Rogozkin", "sigma_Rogozkin",
     "Rogozkin_var_T_pct", "Rogozkin_var_BU_pct", "Abs_Discrepancy"}

\* res_df holds one entry per row of df, in the order of df, each with the
\* identifier and inputs of its row and a number in every computed field.
OneEntryPerSpecimen ==
    /\ pos = Len(df)
    /\ Len(res_df) = Len(df)
    /\ \A i \in 1..Len(df) :
          /\ res_df[i].Sample_ID = df[i].Sample_ID
          /\ res_df[i].T_K = df[i].T_K
          /\ res_df[i].BU_FIMA = df[i].BU_FIMA
          /\ res_df[i].TD_pct = df[i].TD_pct
          /\ \A f \in ComputedFields : IsFin(res_df[i][f])

\* C14: run on the catalog of the script, the loop ends after it has taken
\* each specimen once, and at its end the results hold exactly one entry per
\* specimen, in catalog order, each with its specimen's identifier and the
\* value, sigma and shares of both correlations: none skipped, none twice.
C14_LoopCompletesOncePerSpecimen ==
    /\ <>(pc = "done")
    /\ [](pc = "done" => OneEntryPerSpecimen)

\* C14 witness: the script is past its loop with 36 results, the first for
\* RRN01-6 and the last for RRN06-1.
C14_Witness ==
    /\ pc = "done"
    /\ Len(res_df) = 36
    /\ res_df[1].Sample_ID = "RRN01-6"
    /\ res_df[36].Sample_ID = "RRN06-1"

\* The loop body of sensitivity_analysis.py run alone on a specimen with the
\* inputs of the call: the names it binds and the exception it raises.
LoopOnCall ==
    Exec(Start(NoNames), RowStmts \o StormsStmts \o RogozkinStmts,
         Row("", 0, call.T, call.BU, call.TD))

\* C15: for every specimen, propagate_storms and propagate_rogozkin of
\* figure14_fgr_comparison.py return the value and the sigma that the loop
\* of sensitivity_analysis.py computes as FGR_Storms / sigma_Storms and
\* FGR_Rogozkin / sigma_Rogozkin; where the loop raises in its Storms block,
\* propagate_storms raises the same exception.
C15_ImplementationsAgree ==
    (CallEnded("propagate_storms") \/ CallEnded("propagate_rogozkin")) =>
        \E st \in {LoopOnCall} :
            IF st.exc # "" THEN CallEnded("propagate_storms") => exc = st.exc
            ELSE IF call.fn = "propagate_storms"
                 THEN ret = <<st.env["fgr_s"], st.env["sigma_s"]>>
                 ELSE ret = <<st.env["fgr_r"], st.env["sigma_r"]>>

\* C15 witness: propagate_storms returned for the last specimen of the
\* catalog (1181 K, 3.958 %FIMA, 95.01 %TD) a value strictly between 0 and
\* 100 and a positive sigma.
C15_Witness ==
    /\ CallEnded("propagate_storms")
    /\ call.T = Dec(1181, 0) /\ call.BU = Dec(3958, -3) /\ call.TD = Dec(9501, -2)
    /\ exc = ""
    /\ Gt(ret[1], Zero) /\ Lt(ret[1], Dec(100, 0))
    /\ Gt(ret[2], Zero)

=============================================================================
